---- MODULE Spec2Model ----
(***************************************************************************)
(* A model of pr-reviewer: the command-line pipeline of                    *)
(* pr_reviewer/__main__.py and the helper functions of pr_reviewer/main.py *)
(* and pr_reviewer/utils/settings.py.                                      *)
(*                                                                         *)
(* Text is modelled as a sequence of one-character strings, so that        *)
(* splitting, stripping, joining and prefix tests are computed and not     *)
(* assumed.  The long literal parts of the prompt template are kept as     *)
(* multi-character tokens; they contain no brace.                          *)
(***************************************************************************)
EXTENDS Integers, Sequences, FiniteSets, TLC

VARIABLES
    pc,                 \* position of main() in __main__.py, or of a function call
    repo,               \* the positional argument of main()
    context,            \* the --context option of main(): "None" or a text
    repo_url,           \* first half of the parsed reference
    branch,             \* second half of the parsed reference
    tmp_dir,            \* the temporary clone directory: "none", "exists", "deleted"
    steps,              \* the side effects started so far, in order
    rc,                 \* exit code of each git subprocess run so far
    git_out,            \* standard output of each successful git diff
    raised,             \* the exception that ended the run, or NoExc
    written,            \* the output files written so far
    flattened_codebase, \* local of main()
    diffs,              \* local of main()
    rules,              \* local of main()
    system_prompt,      \* local of main()
    result,             \* local of main()
    input,              \* the arguments of the function under study
    output              \* what the function under study returned or raised

vars == << pc, repo, context, repo_url, branch, tmp_dir, steps, rc, git_out,
           raised, written, flattened_codebase, diffs, rules, system_prompt,
           result, input, output >>

(***************************************************************************)
(* Bounds of the model.                                                    *)
(***************************************************************************)
MaxRefLen == 3
MaxGitLines == 1
MaxDiffLines == 3
MaxContentLen == 4
MaxDiffs == 2
MaxFiles == 2
MaxDepth == 2
MaxPromptLen == 11
MaxEnvBudget == 2

(***************************************************************************)
(* Text helpers: Python's str methods, computed on sequences of characters.*)
(***************************************************************************)
\* All sequences over A of length at most n.
Strs(A, n) == UNION { [1..k -> A] : k \in 0..n }

\* Python: sub in s, for a one-character sub.
Contains(s, ch) == \E i \in 1..Len(s) : s[i] = ch

\* Python: s.startswith(prefix).
StartsWith(s, prefix) ==
    /\ Len(prefix) <= Len(s)
    /\ SubSeq(s, 1, Len(prefix)) = prefix

\* Python: sep.join(parts).
RECURSIVE Join(_, _)
Join(sep, parts) ==
    IF parts = << >> THEN << >>
    ELSE IF Len(parts) = 1 THEN parts[1]
    ELSE parts[1] \o sep \o Join(sep, Tail(parts))

\* The first index at or after i where s holds a character of chars, or 0.
FirstIn(s, i, chars) ==
    IF \E j \in i..Len(s) : s[j] \in chars
    THEN CHOOSE j \in i..Len(s) :
             /\ s[j] \in chars
             /\ \A k \in i..(j - 1) : s[k] \notin chars
    ELSE 0

\* Python: s.splitlines(), for texts whose only line boundary is "\n".  A
\* final fragment without terminator is a line; a terminator at the very end
\* opens no further line.
RECURSIVE SplitFrom(_, _)
SplitFrom(s, i) ==
    IF i > Len(s) THEN << >>
    ELSE LET j == FirstIn(s, i, { "\n" })
         IN  IF j = 0 THEN << SubSeq(s, i, Len(s)) >>
             ELSE << SubSeq(s, i, j - 1) >> \o SplitFrom(s, j + 1)

splitlines(s) == SplitFrom(s, 1)

\* Python: s.rsplit(sep, 1) for a one-character sep that occurs in s.
LastIndex(s, ch) == CHOOSE i \in 1..Len(s) :
                        /\ s[i] = ch
                        /\ \A j \in (i + 1)..Len(s) : s[j] # ch

rsplit1(s, ch) == LET i == LastIndex(s, ch)
                  IN  << SubSeq(s, 1, i - 1), SubSeq(s, i + 1, Len(s)) >>

\* Python: s.strip(chars) and s.rstrip(chars), chars a set of characters.
rstripChars(s, chars) ==
    IF \A i \in 1..Len(s) : s[i] \in chars THEN << >>
    ELSE SubSeq(s, 1, CHOOSE k \in 1..Len(s) :
                          /\ s[k] \notin chars
                          /\ \A j \in (k + 1)..Len(s) : s[j] \in chars)

lstripChars(s, chars) ==
    IF \A i \in 1..Len(s) : s[i] \in chars THEN << >>
    ELSE SubSeq(s, CHOOSE k \in 1..Len(s) :
                       /\ s[k] \notin chars
                       /\ \A j \in 1..(k - 1) : s[j] \in chars,
                Len(s))

stripChars(s, chars) == lstripChars(rstripChars(s, chars), chars)

\* The whitespace str.strip() and str.rstrip() remove by default.
Whitespace == { " ", "\n", "\t", "\r" }

NoExc == "none"

(***************************************************************************)
(* main.py: parse_repo_ref                                                 *)
(***************************************************************************)
\* A faulty variant of parse_repo_ref that splits at the first "@" instead of the last.
parse_repo_ref_first_at(repo_ref) ==
    IF ~Contains(repo_ref, "@")
    THEN [exc |-> "BadParameter", repo_url |-> << >>, branch |-> << >>]
    ELSE LET i == CHOOSE k \in 1..Len(repo_ref) :
                      /\ repo_ref[k] = "@"
                      /\ \A j \in 1..(k - 1) : repo_ref[j] # "@"
             u == SubSeq(repo_ref, 1, i - 1)
             b == SubSeq(repo_ref, i + 1, Len(repo_ref))
         IN  IF u = << >> \/ b = << >>
             THEN [exc |-> "BadParameter", repo_url |-> << >>, branch |-> << >>]
             ELSE [exc |-> NoExc, repo_url |-> u, branch |-> b]

\* What parse_repo_ref returns (exc = NoExc) or raises.
parse_repo_ref(repo_ref) ==
    IF ~Contains(repo_ref, "@")
    THEN [exc |-> "BadParameter", repo_url |-> << >>, branch |-> << >>]
    ELSE LET parts == rsplit1(repo_ref, "@")
         IN  IF parts[1] = << >> \/ parts[2] = << >>
             THEN [exc |-> "BadParameter", repo_url |-> << >>, branch |-> << >>]
             ELSE [exc |-> NoExc, repo_url |-> parts[1], branch |-> parts[2]]

(***************************************************************************)
(* main.py: the splitting loop of get_diff_by_file                         *)
(***************************************************************************)
NL == << "\n" >>

\* The literal "diff --git".
DiffHeader == << "d", "i", "f", "f", " ", "-", "-", "g", "i", "t" >>

\* The for loop over diff.splitlines() and the flush after it; files and
\* current are the loop's two lists.
RECURSIVE SplitLoop(_, _, _, _)
SplitLoop(lines, i, files, current) ==
    IF i > Len(lines)
    THEN (IF current # << >> THEN Append(files, Join(NL, current)) ELSE files)
    ELSE LET line == lines[i]
             flush == StartsWith(line, DiffHeader) /\ current # << >>
         IN  SplitLoop(lines, i + 1,
                       IF flush THEN Append(files, Join(NL, current)) ELSE files,
                       Append(IF flush THEN << >> ELSE current, line))

\* Lines 95-108 of get_diff_by_file, applied to the text of the diff.
split_diff(diff) == SplitLoop(splitlines(diff), 1, << >>, << >>)

(***************************************************************************)
(* main.py: parse_code                                                     *)
(***************************************************************************)
\* The grave accent (backtick) character: the module's string syntax cannot
\* hold it, so this one token stands for it wherever the source writes it.
Backtick == "GRAVE"

\* The three-backtick fence.
Fence == << Backtick, Backtick, Backtick >>

LineNoWidth == 4

DigitChar(d) == << "0", "1", "2", "3", "4", "5", "6", "7", "8", "9" >>[d + 1]

RECURSIVE Digits(_)
Digits(n) == IF n < 10 THEN << DigitChar(n) >>
             ELSE Append(Digits(n \div 10), DigitChar(n % 10))

Spaces(k) == [j \in 1..k |-> " "]

\* Python: f"{n:4d}", a minimum width, never a truncation.
FormatD(n, width) ==
    LET d == Digits(n)
    IN  Spaces(IF Len(d) < width THEN width - Len(d) ELSE 0) \o d

\* The list comprehension of line 59.
numbered_lines(lines) ==
    [i \in 1..Len(lines) |->
        FormatD(i, LineNoWidth) \o << " ", "|", " " >> \o lines[i]]

\* A faulty variant of parse_code that does not strip the content first.
parse_code_no_rstrip(file_content) ==
    Join(NL, << Fence >> \o numbered_lines(splitlines(file_content)) \o << Fence >>)

parse_code(file_content) ==
    LET lines == splitlines(rstripChars(file_content, Whitespace))
    IN  Join(NL, << Fence >> \o numbered_lines(lines) \o << Fence >>)

(***************************************************************************)
(* main.py: get_system_prompt                                              *)
(***************************************************************************)
\* The literal text of the template (lines 119-167), cut at its braces.
Rule == "================================================================================"

TplIntro ==
    << "You are a Pull Request Reviewer AI agent.\n",
       "You will be given:\n",
       "\n",
       "- User Context (optional) to understand specific criteria for this review\n",
       "- A number of coding rules to check against the code changes\n",
       "- A snapshot of the repository regarding all relevant files\n",
       "- Code changes to review\n",
       "\n",
       "Your output must be a JSON object with the following structure:\n",
       "\n" >> \o Fence \o << "json\n" >>

TplSchemaA ==
    << "\n",
       "    \"approved\": boolean,\n",
       "    \"change_requests\": [\n",
       "        " >>

TplSchemaB ==
    << "\n",
       "            \"file\": \"path/to/file.ext\",\n",
       "            \"line\": 123,\n",
       "            \"comment\": \"Description of the issue and suggested improvement\"\n",
       "        " >>

TplSchemaC ==
    << "\n",
       "    ],\n",
       "    \"summary\": \"A brief summary of what the PR changes seem to be trying to achieve, and any concerns or positive feedback you have about the implementation\",\n" >>

TplUserContext ==
    << "\n" >> \o Fence \o << "\n", "\n", Rule, "\n", "\n", "# User context\n", "\n" >>

TplCodingRules ==
    << "\n", "\n", Rule, "\n", "\n", "# Coding Rules\n", "\n" >>

TplSnapshot ==
    << "\n", "\n", Rule, "\n", "\n", "# Repository Snapshot\n", "\n" >>

TplCodeChanges ==
    << "\n", "\n", Rule, "\n", "\n", "# Code Changes\n", "\n" >>

\* The triple-quoted literal of lines 119-167, before .strip() and .format().
Template ==
    << "\n" >> \o TplIntro
    \o << "{", "{" >> \o TplSchemaA
    \o << "{", "{" >> \o TplSchemaB
    \o << "}", "}" >> \o TplSchemaC
    \o << "}", "}" >> \o TplUserContext
    \o << "{", "user_context", "}" >> \o TplCodingRules
    \o << "{", "coding_rules", "}" >> \o TplSnapshot
    \o << "{", "flattened_codebase", "}" >> \o TplCodeChanges
    \o << "{", "diffs_block", "}" >>
    \o << "\n" >>

\* Python: tpl.format(**kw).  Literal text runs to the next brace; "{{" and
\* "}}" give one brace; "{name}" gives kw[name] as it is: the value is not
\* scanned again.
RECURSIVE FormatFrom(_, _, _)
FormatFrom(tpl, i, kw) ==
    IF i > Len(tpl) THEN << >>
    ELSE IF tpl[i] = "{"
         THEN IF i < Len(tpl) /\ tpl[i + 1] = "{"
              THEN << "{" >> \o FormatFrom(tpl, i + 2, kw)
              ELSE kw[tpl[i + 1]] \o FormatFrom(tpl, i + 3, kw)
    ELSE IF tpl[i] = "}"
         THEN << "}" >> \o FormatFrom(tpl, i + 2, kw)
    ELSE LET j == FirstIn(tpl, i, { "{", "}" })
         IN  IF j = 0 THEN SubSeq(tpl, i, Len(tpl))
             ELSE SubSeq(tpl, i, j - 1) \o FormatFrom(tpl, j, kw)

format(tpl, kw) == FormatFrom(tpl, 1, kw)

\* Line 117: one fenced block per diff, joined by a blank line.
diffs_block_of(diffs_arg) ==
    Join(<< "\n", "\n" >>,
         [i \in 1..Len(diffs_arg) |-> Fence \o diffs_arg[i] \o NL \o Fence])

\* A faulty variant of get_system_prompt that passes the rules and the user context
\* to each other's field.
get_system_prompt_swapped(user_context, coding_rules, flattened, diffs_arg) ==
    format(stripChars(Template, Whitespace),
           [user_context       |-> coding_rules,
            coding_rules       |-> user_context,
            flattened_codebase |-> flattened,
            diffs_block        |-> diffs_block_of(diffs_arg)])

get_system_prompt(user_context, coding_rules, flattened, diffs_arg) ==
    format(stripChars(Template, Whitespace),
           [user_context       |-> user_context,
            coding_rules       |-> coding_rules,
            flattened_codebase |-> flattened,
            diffs_block        |-> diffs_block_of(diffs_arg)])

(***************************************************************************)
(* main.py: retrieve_flattened_codebase                                    *)
(*                                                                         *)
(* A path is a sequence of names (pathlib's parts).  A tree is a function  *)
(* from the relative paths of its regular files to their contents; its     *)
(* directories are the proper prefixes of those paths.                     *)
(***************************************************************************)
CODE_EXTENSIONS == { ".py", ".yaml", ".yml", ".toml", ".json" }

OTHER_FILES == { "README.md", "Dockerfile", "Makefile" }

EXCLUDED_DIRS == { ".git", "__pycache__", ".venv", "venv", "node_modules",
                   ".mypy_cache", ".pytest_cache" }

\* The names the model's trees and roots are built from, in the order
\* Python compares them as strings.
NameOrder == << ".git", "README.md", "a.py", "notes", "src", "tmp", "venv", "work" >>

NameRank(n) == CHOOSE i \in 1..Len(NameOrder) : NameOrder[i] = n

\* pathlib: PurePath.suffix, for the names of NameOrder.
Suffix(n) == IF n = "a.py" THEN ".py" ELSE IF n = "README.md" THEN ".md" ELSE ""

\* pathlib: p < q, which compares the parts from the left.
RECURSIVE PathLess(_, _)
PathLess(p, q) ==
    IF q = << >> THEN FALSE
    ELSE IF p = << >> THEN TRUE
    ELSE IF p[1] # q[1] THEN NameRank(p[1]) < NameRank(q[1])
    ELSE PathLess(Tail(p), Tail(q))

\* sorted(S) for a set of paths.
RECURSIVE SortPaths(_)
SortPaths(S) ==
    IF S = {} THEN << >>
    ELSE LET m == CHOOSE x \in S : \A y \in S \ {x} : PathLess(x, y)
         IN  << m >> \o SortPaths(S \ {m})

Files(tree) == DOMAIN tree

Dirs(tree) == UNION { { SubSeq(f, 1, k) : k \in 1..(Len(f) - 1) } : f \in Files(tree) }

\* path.rglob("*"): every file and directory below the root, relative to it.
rglob(tree) == Files(tree) \cup Dirs(tree)

\* Line 29: any(part in EXCLUDED_DIRS for part in file.parts), where file is
\* the root joined with the relative path.
skipped(root, rel) ==
    \E i \in 1..Len(root \o rel) : (root \o rel)[i] \in EXCLUDED_DIRS

\* file.relative_to(path).as_posix()
as_posix(rel) == Join(<< "/" >>, [i \in 1..Len(rel) |-> << rel[i] >>])

heading(rel) == << "## " >> \o as_posix(rel)

BinaryMarker == << "_Binary or non-UTF8 file contents omitted_\n" >>

NonCodeMarker == << "_Non-code file contents omitted_\n" >>

\* The sections one iteration of the loop appends for entry rel.
sections_of(root, tree, rel) ==
    IF skipped(root, rel) THEN << >>
    ELSE IF rel \notin Files(tree) THEN << >>
    ELSE IF Suffix(rel[Len(rel)]) \in CODE_EXTENSIONS \/ rel[Len(rel)] \in OTHER_FILES
         THEN IF tree[rel].utf8
              THEN << heading(rel), parse_code(tree[rel].text), << >> >>
              ELSE << heading(rel), BinaryMarker >>
    ELSE << heading(rel), NonCodeMarker, << >> >>

RECURSIVE SectionsFrom(_, _, _, _)
SectionsFrom(root, tree, entries, i) ==
    IF i > Len(entries) THEN << >>
    ELSE sections_of(root, tree, entries[i]) \o SectionsFrom(root, tree, entries, i + 1)

\* The list sections when the loop of lines 28-51 has ended.
flatten_sections(root, tree) == SectionsFrom(root, tree, SortPaths(rglob(tree)), 1)

retrieve_flattened_codebase(root, tree) == Join(NL, flatten_sections(root, tree))

(***************************************************************************)
(* utils/settings.py and main.py: get_partitioned_calls                    *)
(***************************************************************************)
\* The fields class _Settings declares, with their defaults.
SettingsDefaults ==
    [GEMINI_API_KEY        |-> "None",
     GEMINI_MODEL          |-> "gemini-2.0-flash",
     AZURE_OPENAI_ENDPOINT |-> "None",
     AZURE_OPENAI_KEY      |-> "None",
     AZURE_OPENAI_MODEL    |-> "gpt-5.2",
     CODING_RULES_PATH     |-> "pr_reviewer/coding_rules"]

\* Settings = _Settings(): a declared field takes its value from the
\* environment when the variable is set; a variable that names no declared
\* field is not read.
Settings(env) ==
    [f \in DOMAIN SettingsDefaults |->
        IF f \in DOMAIN env /\ f # "CODING_RULES_PATH" THEN env[f]
        ELSE SettingsDefaults[f]]

\* Python: obj.name
getattr(obj, name) ==
    IF name \in DOMAIN obj THEN [exc |-> NoExc, value |-> obj[name]]
    ELSE [exc |-> "AttributeError", value |-> 0]

\* What get_partitioned_calls returns or raises, and whether it printed the
\* warning.  len(system_prompt) / 4 < m is computed as len(system_prompt) < 4 * m.
get_partitioned_calls(prompt, diffs_arg, settings) ==
    LET budget == getattr(settings, "MAX_TOKENS_CONTEXT_WINDOW")
    IN  IF budget.exc # NoExc
        THEN [exc |-> budget.exc, value |-> << >>, printed |-> FALSE]
        ELSE IF Len(prompt) < 4 * budget.value
        THEN [exc |-> NoExc, value |-> << prompt >>, printed |-> FALSE]
        ELSE [exc |-> NoExc, value |-> << prompt >>, printed |-> TRUE]

(***************************************************************************)
(* main.py: get_rules                                                      *)
(***************************************************************************)
\* rules_dir is << >> when the directory does not exist and << files >> when
\* it does, files being its *.md files in sorted order.
get_rules(rules_dir) ==
    IF rules_dir = << >> THEN << >>
    ELSE LET files == rules_dir[1]
         IN  Join(<< "\n", "\n" >>,
                  [i \in 1..Len(files) |->
                      << "## ", files[i].name >> \o NL
                          \o stripChars(files[i].content, Whitespace)])

(***************************************************************************)
(* __main__.py: main, one action per external step.  An exception unwinds  *)
(* within the action that raises it: leaving the with block of             *)
(* clone_branch removes the temporary directory.                           *)
(***************************************************************************)
RefAlphabet == { "@", "a", "b" }

RepoRefs == Strs(RefAlphabet, MaxRefLen)

\* --context: << >> is None, << t >> is the text t.
Contexts == { << >>, << << "c" >> >> }

\* Exit codes of a git subprocess.
ExitCodes == { 0, 1, 128 }

\* Texts a git diff may print: lines, each ended by a newline.
Unlines(lines) == IF lines = << >> THEN << >> ELSE Join(NL, lines) \o NL

GitLines == { DiffHeader \o << " ", "a" >>, << "+", "x" >> }

GitOutputs == { Unlines(l) : l \in Strs(GitLines, MaxGitLines) }

\* What the clone may hold.
CloneTrees ==
    { (<< "a.py" >> :> [utf8 |-> TRUE, text |-> << "x", "\n" >>]),
      (<< "a.py" >> :> [utf8 |-> FALSE, text |-> << >>])
          @@ (<< ".git", "notes" >> :> [utf8 |-> TRUE, text |-> << >>]) }

CloneRoot == << "tmp", "work" >>

RulesDirs ==
    { << >>,
      << << >> >>,
      << << [name |-> "r.md", content |-> << "R", "\n" >>] >> >> }

\* response.text: << >> is None, << t >> is the text t.
ResponseTexts ==
    { << >>,
      << << "{", "}" >> >>,
      << Fence \o << "j", "s", "o", "n", "\n", "{", "}", "\n" >> \o Fence >> }

NoRaise == [exc |-> NoExc, at |-> "none"]

\* A faulty variant of the exit of the temporary directory that leaves the
\* directory behind.
CleanupLeak(dir) == dir

\* tempfile.TemporaryDirectory.__exit__ (line 190): runs however the block
\* is left.
Cleanup(dir) == IF dir = "exists" THEN "deleted" ELSE dir

\* A faulty variant of main's statement order: the output files are written before
\* the model is called.
SuccWriteFirst(p) ==
    CASE p = "parse_repo_ref" -> "clone"
      [] p = "clone"          -> "fetch_main"
      [] p = "fetch_main"     -> "flatten"
      [] p = "fetch_master"   -> "flatten"
      [] p = "flatten"        -> "diff_main"
      [] p = "diff_main"      -> "get_rules"
      [] p = "diff_master"    -> "get_rules"
      [] p = "get_rules"      -> "compose"
      [] p = "compose"        -> "write_prompt"
      [] p = "write_prompt"   -> "write_result"
      [] p = "write_result"   -> "request"
      [] p = "request"        -> "done"

\* The statement that follows p when p succeeds (main, lines 35-75).
Succ(p) ==
    CASE p = "parse_repo_ref" -> "clone"
      [] p = "clone"          -> "fetch_main"
      [] p = "fetch_main"     -> "flatten"
      [] p = "fetch_master"   -> "flatten"
      [] p = "flatten"        -> "diff_main"
      [] p = "diff_main"      -> "get_rules"
      [] p = "diff_master"    -> "get_rules"
      [] p = "get_rules"      -> "compose"
      [] p = "compose"        -> "request"
      [] p = "request"        -> "write_prompt"
      [] p = "write_prompt"   -> "write_result"
      [] p = "write_result"   -> "done"

\* A faulty variant of line 208 that takes a failed fetch of main for a success.
AfterFetchMainIgnoringFailure(code) == Succ("fetch_main")

\* Line 208: _fetch_branch(main) or _fetch_branch(master).
AfterFetchMain(code) == IF code = 0 THEN Succ("fetch_main") ELSE "fetch_master"

\* A faulty variant of the except clauses that prints nothing.
log_failure_silent(target) == << >>

\* Lines 84 and 88-90: the print of the caught CalledProcessError.
log_failure(target) == << "print_" \o target \o "_exception" >>

MainInit ==
    /\ pc = "parse_repo_ref"
    /\ repo \in RepoRefs
    /\ context \in Contexts
    /\ repo_url = << >>
    /\ branch = << >>
    /\ tmp_dir = "none"
    /\ steps = << >>
    /\ rc = << >>
    /\ git_out = << >>
    /\ raised = NoRaise
    /\ written = {}
    /\ flattened_codebase = << >>
    /\ diffs = << >>
    /\ rules = << >>
    /\ system_prompt = << >>
    /\ result = << >>

FnIdle == input = << >> /\ output = << >>

\* Line 35.
ParseRepoRef ==
    /\ pc = "parse_repo_ref"
    /\ LET r == parse_repo_ref(repo)
       IN  IF r.exc # NoExc
           THEN /\ raised' = [exc |-> r.exc, at |-> "parse_repo_ref"]
                /\ pc' = "done"
                /\ UNCHANGED << repo_url, branch >>
           ELSE /\ repo_url' = r.repo_url
                /\ branch' = r.branch
                /\ pc' = Succ(pc)
                /\ UNCHANGED raised
    /\ UNCHANGED << repo, context, tmp_dir, steps, rc, git_out, written,
                    flattened_codebase, diffs, rules, system_prompt, result,
                    input, output >>

\* Lines 190-206 and 215-218 of clone_branch: the directory is made, git
\* clone runs in it.
Clone ==
    /\ pc = "clone"
    /\ \E code \in ExitCodes :
        /\ steps' = steps \o << "mkdtemp", "clone" >>
        /\ rc' = rc @@ ("clone" :> code)
        /\ IF code = 0
           THEN /\ tmp_dir' = "exists"
                /\ pc' = Succ(pc)
                /\ UNCHANGED raised
           ELSE /\ tmp_dir' = Cleanup("exists")
                /\ pc' = "done"
                /\ raised' = [exc |-> "RuntimeError", at |-> "clone_branch"]
    /\ UNCHANGED << repo, context, repo_url, branch, git_out, written,
                    flattened_codebase, diffs, rules, system_prompt, result,
                    input, output >>

\* Line 208, first operand: _fetch_branch(repo_path, "main").
FetchMain ==
    /\ pc = "fetch_main"
    /\ \E code \in ExitCodes :
        /\ steps' = Append(steps, "fetch_main")
        /\ rc' = rc @@ ("fetch_main" :> code)
        /\ pc' = AfterFetchMain(code)
    /\ UNCHANGED << repo, context, repo_url, branch, tmp_dir, git_out, raised,
                    written, flattened_codebase, diffs, rules, system_prompt,
                    result, input, output >>

\* Lines 208-213, second operand: _fetch_branch(repo_path, "master").
FetchMaster ==
    /\ pc = "fetch_master"
    /\ \E code \in ExitCodes :
        /\ steps' = Append(steps, "fetch_master")
        /\ rc' = rc @@ ("fetch_master" :> code)
        /\ IF code = 0
           THEN /\ pc' = Succ(pc)
                /\ UNCHANGED << tmp_dir, raised >>
           ELSE /\ tmp_dir' = Cleanup(tmp_dir)
                /\ pc' = "done"
                /\ raised' = [exc |-> "RuntimeError", at |-> "clone_branch"]
    /\ UNCHANGED << repo, context, repo_url, branch, git_out, written,
                    flattened_codebase, diffs, rules, system_prompt, result,
                    input, output >>

\* Lines 41-42: retrieve_flattened_codebase(repo_path) inside the with block.
Flatten ==
    /\ pc = "flatten"
    /\ steps' = Append(steps, "flatten")
    /\ \/ \E tree \in CloneTrees :
            /\ flattened_codebase' = retrieve_flattened_codebase(CloneRoot, tree)
            /\ pc' = Succ(pc)
            /\ UNCHANGED << tmp_dir, raised >>
       \/ /\ tmp_dir' = Cleanup(tmp_dir)
          /\ pc' = "done"
          /\ raised' = [exc |-> "OSError", at |-> "retrieve_flattened_codebase"]
          /\ UNCHANGED flattened_codebase
    /\ UNCHANGED << repo, context, repo_url, branch, rc, git_out, written,
                    diffs, rules, system_prompt, result, input, output >>

\* Lines 44-45 with lines 81-84 and 95-108 of get_diff_by_file: the diff
\* against main; on success the chunks are returned and the with block ends.
DiffMain ==
    /\ pc = "diff_main"
    /\ \E code \in ExitCodes, out \in GitOutputs :
        /\ rc' = rc @@ ("diff_main" :> code)
        /\ IF code = 0
           THEN /\ steps' = Append(steps, "diff_main")
                /\ git_out' = git_out @@ ("diff_main" :> out)
                /\ diffs' = split_diff(out)
                /\ tmp_dir' = Cleanup(tmp_dir)
                /\ pc' = Succ(pc)
           ELSE /\ steps' = Append(steps, "diff_main") \o log_failure("main")
                /\ pc' = "diff_master"
                /\ UNCHANGED << git_out, diffs, tmp_dir >>
    /\ UNCHANGED << repo, context, repo_url, branch, raised, written,
                    flattened_codebase, rules, system_prompt, result,
                    input, output >>

\* Lines 85-93 and 95-108 of get_diff_by_file: the diff against master.
DiffMaster ==
    /\ pc = "diff_master"
    /\ \E code \in ExitCodes, out \in GitOutputs :
        /\ rc' = rc @@ ("diff_master" :> code)
        /\ IF code = 0
           THEN /\ steps' = Append(steps, "diff_master")
                /\ git_out' = git_out @@ ("diff_master" :> out)
                /\ diffs' = split_diff(out)
                /\ tmp_dir' = Cleanup(tmp_dir)
                /\ pc' = Succ(pc)
                /\ UNCHANGED raised
           ELSE /\ steps' = Append(steps, "diff_master") \o log_failure("master")
                /\ tmp_dir' = Cleanup(tmp_dir)
                /\ pc' = "done"
                /\ raised' = [exc |-> "RuntimeError", at |-> "get_diff_by_file"]
                /\ UNCHANGED << git_out, diffs >>
    /\ UNCHANGED << repo, context, repo_url, branch, written,
                    flattened_codebase, rules, system_prompt, result,
                    input, output >>

\* Lines 47-48.
GetRules ==
    /\ pc = "get_rules"
    /\ steps' = Append(steps, "get_rules")
    /\ \/ \E d \in RulesDirs :
            /\ rules' = get_rules(d)
            /\ pc' = Succ(pc)
            /\ UNCHANGED raised
       \/ /\ pc' = "done"
          /\ raised' = [exc |-> "OSError", at |-> "get_rules"]
          /\ UNCHANGED rules
    /\ UNCHANGED << repo, context, repo_url, branch, tmp_dir, rc, git_out,
                    written, flattened_codebase, diffs, system_prompt, result,
                    input, output >>

\* Lines 50-56: context or "" is the user context.
Compose ==
    /\ pc = "compose"
    /\ steps' = Append(steps, "compose")
    /\ system_prompt' =
           get_system_prompt(IF context = << >> THEN << >> ELSE context[1],
                             rules, flattened_codebase, diffs)
    /\ pc' = Succ(pc)
    /\ UNCHANGED << repo, context, repo_url, branch, tmp_dir, rc, git_out,
                    raised, written, flattened_codebase, diffs, rules, result,
                    input, output >>

\* Lines 62-71: the one request and the stripping of its response.
GenerateContent ==
    /\ pc = "request"
    /\ steps' = Append(steps, "request")
    /\ \/ /\ pc' = "done"
          /\ raised' = [exc |-> "APIError", at |-> "generate_content"]
          /\ UNCHANGED result
       \/ \E text \in ResponseTexts :
            IF text = << >>
            THEN /\ pc' = "done"
                 /\ raised' = [exc |-> "AttributeError", at |-> "response.text.strip"]
                 /\ UNCHANGED result
            ELSE /\ result' = stripChars(
                                  stripChars(text[1],
                                             { Backtick, "j", "s", "o", "n", "\n" }),
                                  { Backtick })
                 /\ pc' = Succ(pc)
                 /\ UNCHANGED raised
    /\ UNCHANGED << repo, context, repo_url, branch, tmp_dir, rc, git_out,
                    written, flattened_codebase, diffs, rules, system_prompt,
                    input, output >>

\* Line 74.
WritePrompt ==
    /\ pc = "write_prompt"
    /\ steps' = Append(steps, "write_prompt")
    /\ \/ /\ written' = written \cup { "system_prompt" }
          /\ pc' = Succ(pc)
          /\ UNCHANGED raised
       \/ /\ pc' = "done"
          /\ raised' = [exc |-> "OSError", at |-> "write_prompt"]
          /\ UNCHANGED written
    /\ UNCHANGED << repo, context, repo_url, branch, tmp_dir, rc, git_out,
                    flattened_codebase, diffs, rules, system_prompt, result,
                    input, output >>

\* Line 75.
WriteResult ==
    /\ pc = "write_result"
    /\ steps' = Append(steps, "write_result")
    /\ \/ /\ written' = written \cup { "result" }
          /\ pc' = Succ(pc)
          /\ UNCHANGED raised
       \/ /\ pc' = "done"
          /\ raised' = [exc |-> "OSError", at |-> "write_result"]
          /\ UNCHANGED written
    /\ UNCHANGED << repo, context, repo_url, branch, tmp_dir, rc, git_out,
                    flattened_codebase, diffs, rules, system_prompt, result,
                    input, output >>

Init == MainInit /\ FnIdle

Next ==
    \/ ParseRepoRef
    \/ Clone
    \/ FetchMain
    \/ FetchMaster
    \/ Flatten
    \/ DiffMain
    \/ DiffMaster
    \/ GetRules
    \/ Compose
    \/ GenerateContent
    \/ WritePrompt
    \/ WriteResult

Spec == Init /\ [][Next]_vars

(***************************************************************************)
(* The functions of main.py on their own: the arguments are drawn in the   *)
(* initial state and one action applies the function.                      *)
(***************************************************************************)
MainIdle ==
    /\ repo = << >>
    /\ context = << >>
    /\ repo_url = << >>
    /\ branch = << >>
    /\ tmp_dir = "none"
    /\ steps = << >>
    /\ rc = << >>
    /\ git_out = << >>
    /\ raised = NoRaise
    /\ written = {}
    /\ flattened_codebase = << >>
    /\ diffs = << >>
    /\ rules = << >>
    /\ system_prompt = << >>
    /\ result = << >>

\* The frame of a function call: only pc and output change.
Returns(value) ==
    /\ pc = "call"
    /\ pc' = "return"
    /\ output' = value
    /\ UNCHANGED << repo, context, repo_url, branch, tmp_dir, steps, rc,
                    git_out, raised, written, flattened_codebase, diffs, rules,
                    system_prompt, result, input >>

\* ---- get_diff_by_file, lines 95-108 ----
DiffLineSet == { DiffHeader \o << " ", "a" >>,
                 DiffHeader \o << " ", "b" >>,
                 << "+", "x" >>,
                 << " " >> \o DiffHeader }

DiffTexts == { Unlines(l) : l \in Strs(DiffLineSet, MaxDiffLines) }

SplitInit == pc = "call" /\ MainIdle /\ output = << >>
             /\ \E d \in DiffTexts : input = [diff |-> d]

SplitCall == Returns(split_diff(input.diff))

SpecSplit == SplitInit /\ [][SplitCall]_vars

\* ---- parse_code ----
ContentAlphabet == { "a", " ", "\n" }

ParseInit == pc = "call" /\ MainIdle /\ output = << >>
             /\ \E c \in Strs(ContentAlphabet, MaxContentLen) :
                    input = [file_content |-> c]

ParseCall == Returns(parse_code(input.file_content))

SpecParse == ParseInit /\ [][ParseCall]_vars

\* ---- get_system_prompt ----
PromptTexts == { << >>, << "t" >>, << "{", "coding_rules", "}" >> }

PromptChunks == { << "d" >>, << "{", "}" >> }

PromptInit == pc = "call" /\ MainIdle /\ output = << >>
              /\ \E u \in PromptTexts, r \in PromptTexts \cup { << "r" >> },
                    f \in PromptTexts, d \in Strs(PromptChunks, MaxDiffs) :
                    input = [user_context |-> u, coding_rules |-> r,
                             flattened_codebase |-> f, diffs |-> d]

PromptCall == Returns(get_system_prompt(input.user_context, input.coding_rules,
                                        input.flattened_codebase, input.diffs))

SpecPrompt == PromptInit /\ [][PromptCall]_vars

\* ---- retrieve_flattened_codebase ----
TreeNames == { "a.py", "src", "venv" }

TreePaths == UNION { [1..k -> TreeNames] : k \in 1..MaxDepth }

RECURSIVE PathSets(_)
PathSets(k) ==
    IF k = 0 THEN { {} }
    ELSE LET prev == PathSets(k - 1)
         IN  prev \cup { t \cup { q } : t \in prev, q \in TreePaths }

\* No regular file is a directory of another.
PrefixFree(S) ==
    \A f \in S, g \in S : f # g => ~StartsWith(g, f)

\* Every file of a tree holds the same bytes: valid UTF-8 text or not.
FileContents == { [utf8 |-> TRUE, text |-> << "x", "\n" >>],
                  [utf8 |-> FALSE, text |-> << >>] }

Trees == { [f \in S |-> c] : S \in { T \in PathSets(MaxFiles) : PrefixFree(T) },
                             c \in FileContents }

Roots == { << "tmp", "work" >>, << "work", "venv" >> }

FlattenInit == pc = "call" /\ MainIdle /\ output = << >>
               /\ \E r \in Roots, t \in Trees : input = [path |-> r, tree |-> t]

FlattenCall ==
    Returns([sections |-> flatten_sections(input.path, input.tree),
             document |-> retrieve_flattened_codebase(input.path, input.tree)])

SpecFlatten == FlattenInit /\ [][FlattenCall]_vars

\* ---- get_partitioned_calls ----
\* The process environment: MAX_TOKENS_CONTEXT_WINDOW unset, or set to a
\* number; GEMINI_MODEL unset or set.
Environments ==
    { << >> } \cup { ("MAX_TOKENS_CONTEXT_WINDOW" :> b) : b \in 0..MaxEnvBudget }
              \cup { ("GEMINI_MODEL" :> "gemini-x") }

PartitionInit == pc = "call" /\ MainIdle /\ output = << >>
                 /\ \E n \in 0..MaxPromptLen, d \in Strs(PromptChunks, MaxDiffs),
                       e \in Environments :
                       input = [system_prompt |-> [i \in 1..n |-> "p"],
                                diffs |-> d, env |-> e]

PartitionCall ==
    Returns(get_partitioned_calls(input.system_prompt, input.diffs,
                                  Settings(input.env)))

SpecPartition == PartitionInit /\ [][PartitionCall]_vars

(***************************************************************************)
(* Properties.                                                             *)
(***************************************************************************)
\* The number of elements of seq that equal x.
Count(x, seq) == Cardinality({ i \in 1..Len(seq) : seq[i] = x })

\* The indices of the lines of a diff text that begin with "diff --git".
HeaderIndices(lines) == { i \in 1..Len(lines) : StartsWith(lines[i], DiffHeader) }

\* C1 (as claimed): the splitting loop returns exactly one chunk per line
\* that begins with "diff --git", in the order of the headers, each chunk
\* starting with its header line; the lines before the first header are in
\* no chunk and the lines after the last header are in the last chunk.
C1_OneChunkPerHeader ==
    pc = "return" =>
        LET lines == splitlines(input.diff)
            hdr == HeaderIndices(lines)
            kth(k) == CHOOSE i \in hdr : Cardinality({ j \in hdr : j <= i }) = k
            upto(k) == IF k = Cardinality(hdr) THEN Len(lines) ELSE kth(k + 1) - 1
        IN  /\ Len(output) = Cardinality(hdr)
            /\ \A k \in 1..Len(output) :
                   output[k] = Join(NL, SubSeq(lines, kth(k), upto(k)))

\* C6: the prompt is the task description with the output schema, then the
\* user context, the coding rules, the flattened codebase and one fenced
\* block per diff chunk in input order, each input verbatim and complete
\* whatever braces it holds; without diffs the Code Changes section is empty.
C6_PromptLayout ==
    pc = "return" =>
        LET task == TplIntro \o << "{" >> \o TplSchemaA \o << "{" >> \o TplSchemaB
                        \o << "}" >> \o TplSchemaC \o << "}" >> \o TplUserContext
            head == task \o input.user_context
                        \o TplCodingRules \o input.coding_rules
                        \o TplSnapshot \o input.flattened_codebase
                        \o TplCodeChanges
            block(i) == Fence \o input.diffs[i] \o NL \o Fence
            n == Len(input.diffs)
        IN  /\ SubSeq(output, 1, Len(head)) = head
            /\ n = 0 => output = head
            /\ n > 0 => SubSeq(output, Len(head) + 1, Len(output))
                            = Join(<< "\n", "\n" >>, [i \in 1..n |-> block(i)])

\* C6 witness: a call has returned whose user context holds a replacement
\* field in braces and which has two diff chunks, one of them with braces.
C6_Witness ==
    /\ pc = "return"
    /\ input.user_context = << "{", "coding_rules", "}" >>
    /\ input.coding_rules = << "r" >>
    /\ input.diffs = << << "d" >>, << "{", "}" >> >>
    /\ Len(output) > 0

\* C7 (as claimed): the flattened document has exactly one heading for each
\* regular file under the root that is in no directory with an excluded
\* name, and no heading for anything else.
C7_HeadingIffOutsideExcludedDirs ==
    pc = "return" =>
        /\ \A f \in Files(input.tree) :
               Count(heading(f), output.sections)
                   = IF \E i \in 1..(Len(f) - 1) : f[i] \in EXCLUDED_DIRS
                     THEN 0 ELSE 1
        /\ \A i \in 1..Len(output.sections) :
               StartsWith(output.sections[i], << "## " >>)
                   => \E f \in Files(input.tree) : output.sections[i] = heading(f)

\* The line number i (below 10) right-aligned in 4 characters, then " | ".
Gutter(i) == << " ", " ", " ", DigitChar(i), " ", "|", " " >>

\* C8 (as claimed): the fenced block has one rendered line per line of the
\* content, in order, the i-th being the number i right-aligned in 4
\* characters, " | ", and the i-th line of the content unchanged.
C8_OneRenderedLinePerContentLine ==
    pc = "return" =>
        LET lines == splitlines(input.file_content)
            rendered == splitlines(output)
        IN  /\ Len(rendered) = Len(lines) + 2
            /\ rendered[1] = Fence
            /\ rendered[Len(rendered)] = Fence
            /\ \A i \in 1..Len(lines) : rendered[i + 1] = Gutter(i) \o lines[i]

\* C8 (amended): the fenced block has one rendered line per line of the
\* content with its trailing whitespace (blanks and line ends at the end of
\* the content) removed, in order, the i-th being the number i right-aligned
\* in 4 characters, " | ", and that line unchanged.
C8_OneRenderedLinePerStrippedLine ==
    pc = "return" =>
        LET lines == splitlines(rstripChars(input.file_content, Whitespace))
            rendered == splitlines(output)
        IN  /\ Len(rendered) = Len(lines) + 2
            /\ rendered[1] = Fence
            /\ rendered[Len(rendered)] = Fence
            /\ \A i \in 1..Len(lines) : rendered[i + 1] = Gutter(i) \o lines[i]

\* C8 witness: the content "a\n\n " (a line, an empty line and a blank
\* line) has been rendered as the single line "   1 | a".
C8_Witness ==
    /\ pc = "return"
    /\ input.file_content = << "a", "\n", "\n", " " >>
    /\ output = Fence \o NL \o << " ", " ", " ", "1", " ", "|", " ", "a" >> \o NL \o Fence

\* C9 (as claimed): get_partitioned_calls returns, without raising, the
\* one-element list of the unmodified prompt.
C9_ReturnsWholePrompt ==
    pc = "return" =>
        /\ output.exc = NoExc
        /\ output.value = << input.system_prompt >>

\* ---- properties of the pipeline ----
Ran(ev) == \E i \in 1..Len(steps) : steps[i] = ev

Exited(call) == call \in DOMAIN rc

Failed(call) == Exited(call) /\ rc[call] # 0

Succeeded(call) == Exited(call) /\ rc[call] = 0

\* C2: the diff against main is attempted first; master is attempted only
\* after main failed and after that failure was printed; get_diff_by_file
\* raises (a RuntimeError) exactly when both attempts failed, and otherwise
\* returns the split of the output of the first attempt that succeeded.
C2_MainThenMasterFallback ==
    /\ Exited("diff_master") => Failed("diff_main")
    /\ Ran("diff_master") =>
           \E i, j, k \in 1..Len(steps) :
               /\ i < j /\ j < k
               /\ steps[i] = "diff_main"
               /\ steps[j] = "print_main_exception"
               /\ steps[k] = "diff_master"
    /\ Count("diff_main", steps) <= 1 /\ Count("diff_master", steps) <= 1
    /\ raised.at = "get_diff_by_file"
           <=> (Failed("diff_main") /\ Failed("diff_master"))
    /\ raised.at = "get_diff_by_file" => raised.exc = "RuntimeError"
    /\ Succeeded("diff_main") =>
           /\ ~Exited("diff_master")
           /\ diffs = split_diff(git_out["diff_main"])
    /\ Succeeded("diff_master") => diffs = split_diff(git_out["diff_master"])

\* C2 witness: main failed, master succeeded, and its one chunk was returned.
C2_Witness ==
    /\ Failed("diff_main")
    /\ Succeeded("diff_master")
    /\ pc = "get_rules"
    /\ diffs = << DiffHeader \o << " ", "a" >> >>

\* A reference is malformed when it has no "@", or nothing before its last
\* "@", or nothing after it.
Malformed(ref) ==
    \/ \A i \in 1..Len(ref) : ref[i] # "@"
    \/ ref[Len(ref)] = "@"
    \/ ref[1] = "@" /\ \A i \in 2..Len(ref) : ref[i] # "@"

\* C3: a malformed reference makes parse_repo_ref raise typer.BadParameter
\* and main end with no clone, fetch, diff, read, write or request started;
\* any other reference is returned as the non-empty pair split at its last
\* "@".
C3_MalformedRejectedBeforeAnyStep ==
    /\ pc = "parse_repo_ref" => steps = << >> /\ written = {}
    /\ pc # "parse_repo_ref" =>
           IF Malformed(repo)
           THEN /\ raised = [exc |-> "BadParameter", at |-> "parse_repo_ref"]
                /\ pc = "done"
                /\ steps = << >>
                /\ rc = << >>
                /\ tmp_dir = "none"
                /\ written = {}
           ELSE /\ raised.at # "parse_repo_ref"
                /\ repo_url # << >>
                /\ branch # << >>
                /\ repo = repo_url \o << "@" >> \o branch
                /\ ~Contains(branch, "@")

\* C3 witness: the reference "@b", whose URL half is empty, was rejected.
C3_Witness ==
    /\ repo = << "@", "b" >>
    /\ pc = "done"
    /\ raised.exc = "BadParameter"

\* C4: the temporary directory is gone on every way out of the with block
\* (clone failed, both fetches failed, the body raised, the body ended), so
\* in every final state, and before the rules are loaded, the prompt is
\* composed and the model is called.
C4_TempDirDeletedOnEveryExit ==
    /\ pc = "done" => tmp_dir # "exists"
    /\ (pc = "done" /\ Ran("mkdtemp")) => tmp_dir = "deleted"
    /\ pc \in { "get_rules", "compose", "request", "write_prompt", "write_result" }
           => tmp_dir = "deleted"
    /\ (Ran("get_rules") \/ Ran("compose") \/ Ran("request")) => tmp_dir = "deleted"

\* C4 witness: the body raised (both diffs failed) and the directory is gone.
C4_Witness ==
    /\ raised.at = "get_diff_by_file"
    /\ Ran("flatten")
    /\ tmp_dir = "deleted"

\* C5 (as claimed): after any non-zero exit of the clone or of a fetch the
\* body of the with block is never entered.
C5_AnyNonZeroExitAborts ==
    (Failed("clone") \/ Failed("fetch_main") \/ Failed("fetch_master"))
        => ~Ran("flatten")

\* C5 (amended): a non-zero exit of the clone, or of both fetches (main,
\* then master), aborts with a RuntimeError and the body is never entered;
\* master is fetched only after the fetch of main failed; the body is
\* entered only when the clone and one of the two fetches exited with zero.
C5_CloneOrBothFetchesFailedAborts ==
    /\ (Failed("clone") \/ (Failed("fetch_main") /\ Failed("fetch_master"))) =>
           /\ raised = [exc |-> "RuntimeError", at |-> "clone_branch"]
           /\ pc = "done"
           /\ ~Ran("flatten")
    /\ Exited("fetch_master") => Failed("fetch_main")
    /\ Ran("flatten") =>
           /\ Succeeded("clone")
           /\ Succeeded("fetch_main") \/ Succeeded("fetch_master")

\* C5 witness: the fetch of main failed, the fetch of master succeeded and
\* the body was entered.
C5_Witness ==
    /\ Failed("fetch_main")
    /\ Succeeded("fetch_master")
    /\ Ran("flatten")

\* The order of the steps of one run.
StepOrder == << "mkdtemp", "clone", "fetch_main", "fetch_master", "flatten",
                "diff_main", "print_main_exception", "diff_master",
                "print_master_exception", "get_rules", "compose", "request",
                "write_prompt", "write_result" >>

StepRank(ev) == CHOOSE i \in 1..Len(StepOrder) : StepOrder[i] = ev

\* C10: the steps of a run happen in the order clone, flatten, diff, load
\* rules, compose, model request, write outputs, each at most once; at most
\* one request is sent; a file is written only after the response was
\* obtained and stripped, so a run that fails at any step up to there ends
\* with no output file.
C10_StrictOrderOneRequestNoPartialOutput ==
    /\ \A i, j \in 1..Len(steps) : i < j => StepRank(steps[i]) < StepRank(steps[j])
    /\ Count("request", steps) <= 1
    /\ (written # {} \/ Ran("write_prompt") \/ Ran("write_result")) =>
           /\ Ran("request")
           /\ raised.at \notin { "generate_content", "response.text.strip" }
           /\ \A ev \in { "clone", "flatten", "get_rules", "compose" } : Ran(ev)
    /\ (pc = "done" /\ raised.at \in { "parse_repo_ref", "clone_branch",
                                      "retrieve_flattened_codebase",
                                      "get_diff_by_file", "get_rules",
                                      "generate_content", "response.text.strip" })
           => written = {}
    /\ (pc = "done" /\ raised = NoRaise) => written = { "system_prompt", "result" }

\* C10 witness: the request was sent, its response had no text, and the run
\* ended with nothing written.
C10_Witness ==
    /\ pc = "done"
    /\ raised.at = "response.text.strip"
    /\ Ran("request")
    /\ written = {}

====
